---- MODULE Spec2Model ----
(***************************************************************************)
(* MarkdownVault: the chunker (src/src/text_splitter.py), the vector       *)
(* index (src/src/vector_database.py), the file validation, the embedding  *)
(* providers and the ingestion of src/app.py as state machines.            *)
(*                                                                         *)
(* SplitSpec / FairSplitSpec : TextSplitter.__init__, split_text (one      *)
(*                             action per iteration of its while loop)     *)
(*                             and split_file.                             *)
(* DbSpec                    : VectorDatabase.add_documents, search,       *)
(*                             list_documents and delete_document over the *)
(*                             engine collection (a map from id to entry). *)
(* ScoreSpec                 : the score search computes from a distance.  *)
(* FileSpec                  : FileProcessor.__init__ and validate_file.   *)
(* EmbedSpec                 : the embedding providers and embed_texts.    *)
(* AppSpec                   : MarkdownVectorApp.__init__ and              *)
(*                             process_files, one action per document.     *)
(* QuerySpec                 : ingestions, delete_document and one         *)
(*                             search_documents on the app.                *)
(* ConcSpec                  : two process_files calls on one app.         *)
(* CleanSpec                 : MarkdownCleaner.clean_content               *)
(*                             (src/src/markdown_cleaner.py).              *)
(*                                                                         *)
(* A record lists its fields in the order TLC keeps them (the order in     *)
(* which the field names first occur in this module), not in the order of  *)
(* the source: a record value then never changes after it is built, which  *)
(* two TLC workers that evaluate one action rely on.                       *)
(***************************************************************************)
EXTENDS Integers, Sequences, FiniteSets, TLC

VARIABLES
    splitter,     \* the TextSplitter object: [constructed, chunk_size, chunk_overlap]
    ctor,         \* the call of TextSplitter.__init__ just made: arguments and outcome
    pc,           \* position of the caller: "new", "idle", "loop", "done"
    call,         \* the running split call: [op, text, metadata]
    start,        \* local variable start of split_text
    chunks,       \* local variable chunks of split_text
    prevStart,    \* start of the chunk emitted by the previous iteration (history)
    result,       \* value returned by the last split_text / split_file (when pc = "done")
    index,        \* the engine collection: a set of [id, vector, text, metadata]
    indexBefore,  \* the collection as it was when the last operation began (history)
    dbCall,       \* last VectorDatabase call: operation and arguments
    dbRet,        \* its outcome: [outcome, value, success]
    deleted,      \* filenames deleted and not returned by an add since (history)
    scoreCall,    \* last distance turned into a score: [called, distance, score]
    fileProc,     \* the FileProcessor object: [allowed_extensions, max_file_size_mb,
                  \*                            max_file_size_bytes]
    valCall,      \* last validate_file call: arguments and returned pair
    provider,     \* the embedding provider object: [backend, model_name, model_identifier]
    embCall,      \* last embed_texts call: [called, texts, api_calls, outcome, value]
    app,          \* the MarkdownVectorApp object: its text_splitter, embedding_provider,
                  \* file_processor and the name of the collection of its vector_db
                  \* (the collection itself is index)
    cleanCall,    \* last clean_content call: the cleaner's settings, content, output
    srch,         \* last search_documents call: arguments and how it ended
    procs,        \* two process_files calls running on one app: their positions and locals
    run           \* the process_files call: position, the length n of the batch, the
                  \* files of the batch met so far, locals, result

splitVars == <<splitter, ctor, pc, call, start, chunks, prevStart, result>>
dbVars == <<index, indexBefore, dbCall, dbRet, deleted>>
scoreVars == <<scoreCall>>
fileVars == <<fileProc, valCall>>
embVars == <<provider, embCall>>
appVars == <<app, run>>
moreVars == <<cleanCall, srch, procs>>
extVars == <<scoreVars, fileVars, embVars, appVars, moreVars>>
vars == <<splitter, ctor, pc, call, start, chunks, prevStart, result,
          index, indexBefore, dbCall, dbRet, deleted, scoreCall, fileProc, valCall,
          provider, embCall, app, run, cleanCall, srch, procs>>

None == "None"

\* no TextSplitter object exists (none constructed yet, or __init__ raised)
NoSplitter == [constructed |-> FALSE, chunk_size |-> 0, chunk_overlap |-> 0]
NoCtor == [chunk_size |-> 0, chunk_overlap |-> 0, called |-> FALSE, raised |-> None]
NoCall == [op |-> "none", text |-> <<>>, metadata |-> None]
NoScoreCall == [called |-> FALSE, distance |-> 0, score |-> 0]
NoReason == [kind |-> "", ext |-> <<>>, size |-> 0]
NoValCall == [called |-> FALSE, file_path |-> <<>>, file_size |-> 0,
              ok |-> FALSE, reason |-> NoReason]

NoEmbCall == [called |-> FALSE, texts |-> <<>>, api_calls |-> <<>>,
              outcome |-> "none", value |-> <<>>]

\* app.py line 19
DEFAULT_MODEL == "text-embedding-3-small"

\* OpenAIEmbeddingProvider.__init__ (embedding_provider.py lines 28-29)
OpenAIEmbeddingProvider(model_name) ==
    [model_name |-> model_name, backend |-> "OpenAIEmbeddingProvider",
     model_identifier |-> "openai"]

\* SentenceTransformerEmbeddingProvider.__init__ (lines 70-71)
SentenceTransformerEmbeddingProvider(model_name) ==
    [model_name |-> model_name, backend |-> "SentenceTransformerEmbeddingProvider",
     model_identifier |-> "minilm"]

NoProvider == [model_name |-> "", backend |-> "none", model_identifier |-> ""]

\* FileProcessor.__init__ (file_processor.py lines 35-36); a size in MB is a
\* whole number here
FileProcessor_init(allowed_extensions, max_file_size_mb) ==
    [allowed_extensions |-> allowed_extensions,
     max_file_size_mb |-> max_file_size_mb,
     max_file_size_bytes |-> max_file_size_mb * 1024 * 1024]

\* the defaults of FileProcessor.__init__ (lines 17-18): [".md"] and 5.0 MB
DefaultFileProcessor == FileProcessor_init(<< <<".", "m", "d">> >>, 5)

NoCleanCall == [called |-> FALSE, strategy |-> "balanced", preserve_code_blocks |-> TRUE,
                preserve_headings_as_context |-> TRUE, content |-> <<>>,
                content_is_none |-> FALSE, output |-> <<>>, output_is_none |-> FALSE]
NoSearch == [called |-> FALSE, raised |-> None, value |-> <<>>, query |-> <<>>,
             top_k |-> 0, query_embedding |-> <<>>, error |-> None]
NoProcs == [p \in 1..2 |-> [pc |-> "idle", chunk_size |-> 0, chunk_overlap |-> 0, n |-> 0,
                            split_with |-> <<>>]]

\* no MarkdownVectorApp object exists
NoApp == [started |-> FALSE, text_splitter |-> NoSplitter, embedding_provider |-> NoProvider,
          file_processor |-> DefaultFileProcessor, collection_name |-> ""]

\* the document process_files handled last (history): how it ended, what
\* embed_texts returned for it, and the collection and the success list before it
NoLast == [kind |-> "none", filename |-> "", detail |-> "", emb_outcome |-> "none",
           emb_value |-> <<>>, index_before |-> {}, successful_before |-> <<>>]
NoResult == [status |-> "", ingested_files |-> <<>>, failed_files |-> <<>>]
NoRun == [pc |-> "idle", result |-> NoResult, raised |-> None, n |-> 0, failed_files |-> <<>>,
          files |-> <<>>, i |-> 0, successful_files |-> <<>>,
          total_chunks |-> 0, last |-> NoLast, index_at_start |-> {}]
NoDbCall == [chunks |-> <<>>, op |-> "none", query |-> <<>>, top_k |-> 0,
             filename |-> None, embeddings |-> <<>>]
NoDbRet == [outcome |-> "none", value |-> <<>>, success |-> FALSE]

(***************************************************************************)
(* Bounds of the model.                                                    *)
(***************************************************************************)
MaxTextLen == 20      \* longest text handed to split_text / split_file
MaxChunkSize == 10    \* chunk_size and chunk_overlap range over -1..MaxChunkSize
MaxBatch == 2         \* longest chunk / embedding list handed to add_documents
MaxTopK == 2          \* largest top_k handed to search
BatchCeiling == 2     \* most inputs the OpenAI endpoint takes in one request
DistanceDen == 25     \* reported distances are multiples of 1/DistanceDen

\* split_text emits at most one chunk per character; the loop is cut off beyond
MaxChunks == MaxTextLen + 1

Min(a, b) == IF a <= b THEN a ELSE b
Max(a, b) == IF a >= b THEN a ELSE b

(***************************************************************************)
(* Texts.  A text is a sequence of characters; the i-th character of the   *)
(* reference text is Alphabet[i], so "0123456789ABCDEFGHIJ" is its prefix  *)
(* of length 20 and characters at different offsets differ.                *)
(***************************************************************************)
Alphabet == <<"0", "1", "2", "3", "4", "5", "6", "7", "8", "9",
              "A", "B", "C", "D", "E", "F", "G", "H", "I", "J",
              "K", "L", "M", "N", "O", "P", "Q", "R", "S", "T">>

CharAt(i) == Alphabet[((i - 1) % Len(Alphabet)) + 1]

TextOfLen(n) == [i \in 1..n |-> CharAt(i)]

Texts == {TextOfLen(n) : n \in 0..MaxTextLen}

\* Python slice text[a:b] for 0 <= a <= b <= len(text)
Slice(text, a, b) == SubSeq(text, a + 1, b)

SplitFilenames == {"test.md", "b.md"}

(***************************************************************************)
(* TextSplitter.__init__                                                   *)
(***************************************************************************)
\* variant: the last check written with > instead of >=
InitError_gt(chunk_size, chunk_overlap) ==
    IF chunk_size <= 0 THEN "ValueError: chunk_size"
    ELSE IF chunk_overlap < 0 THEN "ValueError: chunk_overlap negative"
    ELSE IF chunk_overlap > chunk_size THEN "ValueError: chunk_overlap >= chunk_size"
    ELSE None

\* the three checks of the constructor, in order; None when none raises
InitError(chunk_size, chunk_overlap) ==
    IF chunk_size <= 0 THEN "ValueError: chunk_size"
    ELSE IF chunk_overlap < 0 THEN "ValueError: chunk_overlap negative"
    ELSE IF chunk_overlap >= chunk_size THEN "ValueError: chunk_overlap >= chunk_size"
    ELSE None

TextSplitter_init(chunk_size, chunk_overlap) ==
    /\ pc \in {"new", "idle"}
    /\ LET err == InitError(chunk_size, chunk_overlap) IN
         /\ ctor' = [chunk_size |-> chunk_size, chunk_overlap |-> chunk_overlap,
                     called |-> TRUE, raised |-> err]
         /\ IF err = None
              THEN /\ splitter' = [constructed |-> TRUE, chunk_size |-> chunk_size,
                                   chunk_overlap |-> chunk_overlap]
                   /\ pc' = "idle"
              ELSE \* the exception leaves no new object; an earlier one is untouched
                   /\ UNCHANGED <<splitter, pc>>
    /\ call' = NoCall
    /\ start' = 0
    /\ chunks' = <<>>
    /\ prevStart' = -1
    /\ result' = <<>>
    /\ UNCHANGED <<dbVars, extVars>>

(***************************************************************************)
(* TextSplitter.split_text                                                 *)
(***************************************************************************)
\* variant: the window one character short
ChunkEnd_offbyone(s, chunk_size, text_len) == Min(s + chunk_size - 1, text_len)

\* line 63
ChunkEnd(s, chunk_size, text_len) == Min(s + chunk_size, text_len)

\* variant: the overlap added instead of subtracted
NextStart_gap(end, chunk_overlap, text_len) == end + chunk_overlap

\* variant: the overlap applied without the guard of line 78
NextStart_unguarded(end, chunk_overlap, text_len) == end - chunk_overlap

\* lines 75-79: the start of the next iteration
NextStart(end, chunk_overlap, text_len) ==
    LET s == end - chunk_overlap IN
      IF s <= 0 \/ s >= text_len \/ s = (end - chunk_overlap) THEN end ELSE s

\* lines 66-70: the chunk of one iteration; metadata is None or a filename
MakeChunk(text, s, end, metadata) ==
    [start |-> s, text |-> Slice(text, s, end), end |-> end,
     source_filename |-> metadata, chunk_index |-> -1]

\* entry of split_text (lines 50-59): an empty text returns [] at once
BeginSplit(op, text, metadata) ==
    /\ pc \in {"idle", "done"}
    /\ splitter.constructed
    /\ call' = [op |-> op, text |-> text, metadata |-> metadata]
    /\ start' = 0
    /\ chunks' = <<>>
    /\ prevStart' = -1
    /\ IF Len(text) = 0
         THEN pc' = "done" /\ result' = <<>>
         ELSE pc' = "loop" /\ result' = <<>>
    /\ ctor' = NoCtor
    /\ UNCHANGED splitter
    /\ UNCHANGED <<dbVars, extVars>>

split_text(text) == BeginSplit("split_text", text, None)

split_file(file_path, file_content) == BeginSplit("split_file", file_content, file_path)

\* one iteration of the while loop (lines 61-79)
SplitLoop ==
    /\ pc = "loop"
    /\ start < Len(call.text)
    /\ Len(chunks) < MaxChunks
    /\ LET end == ChunkEnd(start, splitter.chunk_size, Len(call.text)) IN
         /\ chunks' = Append(chunks, MakeChunk(call.text, start, end, call.metadata))
         /\ start' = NextStart(end, splitter.chunk_overlap, Len(call.text))
    /\ prevStart' = start
    /\ UNCHANGED <<splitter, ctor, pc, call, result>>
    /\ UNCHANGED <<dbVars, extVars>>

\* variant: one-based numbering
WithChunkIndex_onebased(cs) == [i \in 1..Len(cs) |-> [cs[i] EXCEPT !.chunk_index = i]]

\* split_file lines 101-102
WithChunkIndex(cs) == [i \in 1..Len(cs) |-> [cs[i] EXCEPT !.chunk_index = i - 1]]

\* loop exit and return (line 81; split_file lines 100-104)
SplitReturn ==
    /\ pc = "loop"
    /\ ~(start < Len(call.text))
    /\ pc' = "done"
    /\ result' = IF call.op = "split_file" THEN WithChunkIndex(chunks) ELSE chunks
    /\ UNCHANGED <<splitter, ctor, call, start, chunks, prevStart>>
    /\ UNCHANGED <<dbVars, extVars>>

Init ==
    /\ splitter = NoSplitter
    /\ ctor = NoCtor
    /\ pc = "new"
    /\ call = NoCall
    /\ start = 0
    /\ chunks = <<>>
    /\ prevStart = -1
    /\ result = <<>>
    /\ index = {}
    /\ indexBefore = {}
    /\ dbCall = NoDbCall
    /\ dbRet = NoDbRet
    /\ deleted = {}
    /\ scoreCall = NoScoreCall
    /\ fileProc = DefaultFileProcessor
    /\ valCall = NoValCall
    /\ provider = OpenAIEmbeddingProvider(DEFAULT_MODEL)
    /\ embCall = NoEmbCall
    /\ app = NoApp
    /\ run = NoRun
    /\ cleanCall = NoCleanCall
    /\ srch = NoSearch
    /\ procs = NoProcs

SplitNext ==
    \/ \E cs \in -1..MaxChunkSize, co \in -1..MaxChunkSize : TextSplitter_init(cs, co)
    \/ \E t \in Texts : split_text(t)
    \/ \E f \in SplitFilenames, t \in Texts : split_file(f, t)
    \/ SplitLoop
    \/ SplitReturn

SplitSpec == Init /\ [][SplitNext]_vars

\* a call of split_text that has started keeps running until it returns
FairSplitSpec == SplitSpec /\ WF_vars(SplitLoop) /\ WF_vars(SplitReturn)

(***************************************************************************)
(* Properties of the chunker                                               *)
(***************************************************************************)
ValidConfig(chunk_size, chunk_overlap) ==
    chunk_size > 0 /\ 0 <= chunk_overlap /\ chunk_overlap < chunk_size

Returned == pc = "done"

ChunkSpans(cs) == [i \in 1..Len(cs) |-> <<cs[i].text, cs[i].start, cs[i].end>>]

\* C1: with chunk_overlap > 0 and a text longer than chunk_size, every chunk
\* after the first starts chunk_overlap characters before the end of the chunk
\* before it; chunk_size 10, chunk_overlap 3 on "0123456789ABCDEFGHIJ" gives
\* "0123456789" (0-10), "789ABCDEFG" (7-17), "EFGHIJ" (14-20).
C1_OverlapApplied ==
    Returned =>
      /\ (Len(call.text) > splitter.chunk_size /\ splitter.chunk_overlap > 0) =>
            \A i \in 1..(Len(result) - 1) :
               result[i + 1].start = result[i].end - splitter.chunk_overlap
      /\ (splitter.chunk_size = 10 /\ splitter.chunk_overlap = 3
            /\ call.text = TextOfLen(20)) =>
            ChunkSpans(result) =
              << << <<"0", "1", "2", "3", "4", "5", "6", "7", "8", "9">>, 0, 10 >>,
                 << <<"7", "8", "9", "A", "B", "C", "D", "E", "F", "G">>, 7, 17 >>,
                 << <<"E", "F", "G", "H", "I", "J">>, 14, 20 >> >>

Covered(i, cs) == \E k \in 1..Len(cs) : cs[k].start <= i /\ i < cs[k].end

\* C2: the chunks returned for a non-empty text cover every character index
\* of the text.
C2_FullCoverage ==
    (Returned /\ Len(call.text) > 0) =>
       \A i \in 0..(Len(call.text) - 1) : Covered(i, result)

C2_Witness ==
    Returned /\ Len(result) >= 3 /\ splitter.chunk_overlap > 0

OneWholeChunk ==
    /\ Len(result) = 1
    /\ result[1].text = call.text
    /\ result[1].start = 0
    /\ result[1].end = Len(call.text)

\* C3 as stated: every text no longer than chunk_size yields exactly one chunk
\* equal to the text, with start 0 and end len(text).
C3_OneChunkAnyText ==
    (Returned /\ Len(call.text) <= splitter.chunk_size) => OneWholeChunk

\* C3: every non-empty text no longer than chunk_size yields exactly one chunk
\* equal to the text, with start 0 and end len(text).
C3_OneChunk ==
    (Returned /\ Len(call.text) > 0 /\ Len(call.text) <= splitter.chunk_size)
       => OneWholeChunk

C3_Witness ==
    /\ Returned
    /\ Len(call.text) = splitter.chunk_size
    /\ splitter.chunk_overlap > 0
    /\ Len(result) = 1

\* C4: the chunks returned by split_file carry chunk_index 0..n-1 in output
\* order, are in ascending order of start, and all carry the given filename.
C4_SplitFileIndexing ==
    (Returned /\ call.op = "split_file") =>
       /\ \A i \in 1..Len(result) :
             /\ result[i].chunk_index = i - 1
             /\ result[i].source_filename = call.metadata
       /\ \A i \in 1..(Len(result) - 1) : result[i].start < result[i + 1].start

C4_Witness ==
    Returned /\ call.op = "split_file" /\ Len(result) >= 3

\* C5: split_text returns for every text and every valid configuration, and
\* start strictly grows on every iteration of its loop.
C5_Terminates ==
    /\ (pc = "loop") ~> Returned
    /\ [][(pc = "loop" /\ pc' = "loop") => (start' > start /\ start > prevStart)]_vars

C5_Witness ==
    /\ Returned
    /\ splitter.chunk_size >= 2
    /\ splitter.chunk_overlap = splitter.chunk_size - 1
    /\ Len(result) >= 3

\* C6: TextSplitter.__init__ raises exactly when the pair is not a valid
\* configuration; a successful call yields a splitter with that pair, and no
\* splitter or running split ever has an invalid configuration.
C6_ConstructorValidates ==
    /\ ctor.called =>
          ((ctor.raised = None) <=> ValidConfig(ctor.chunk_size, ctor.chunk_overlap))
    /\ (ctor.called /\ ctor.raised = None) =>
          splitter = [constructed |-> TRUE, chunk_size |-> ctor.chunk_size,
                      chunk_overlap |-> ctor.chunk_overlap]
    /\ splitter.constructed => ValidConfig(splitter.chunk_size, splitter.chunk_overlap)
    /\ pc \in {"loop", "done"} => splitter.constructed

C6_Witness ==
    /\ ctor.called
    /\ ctor.raised # None
    /\ ctor.chunk_size > 0
    /\ ctor.chunk_overlap = ctor.chunk_size

(***************************************************************************)
(* VectorDatabase (src/src/vector_database.py)                             *)
(*                                                                         *)
(* The engine collection is a set of entries [id, vector, text, metadata]. *)
(* The engine is the persistent client of line 35 (the one that keeps      *)
(* chroma.sqlite3, app.py line 602): its add rejects a batch that repeats  *)
(* an id and otherwise inserts the ids that are new and skips, with a      *)
(* warning, the ids the collection already holds; its delete removes the   *)
(* entries whose metadata match the filter; its query returns the nearest  *)
(* entries by non-decreasing distance.  The collection is created without  *)
(* a distance setting (line 49), so the distance is the engine's default,  *)
(* the squared Euclidean distance.                                         *)
(***************************************************************************)
Filenames == {"a", "a_1"}

\* the source filenames in the order of Python's string comparison
FilenameOrder == <<"a", "a_1">>

\* the contents an ingestion of a document can have
Versions == {1, 2}

VersionText(p) == IF p = 1 THEN <<"x">> ELSE <<"y", "z">>

\* the embedding of the i-th chunk (i from 0) of a document in version p
VectorOf(p, i) == <<i, p>>

QueryVectors == {<<0, 1>>, <<2, 2>>}

\* the i-th chunk (i from 0) of document f in version p, as split_file shapes it
DbChunk(f, i, p) ==
    [start |-> i * Len(VersionText(p)), text |-> VersionText(p),
     end |-> (i + 1) * Len(VersionText(p)), source_filename |-> f, chunk_index |-> i]

DocChunks(f, n, p) == [i \in 1..n |-> DbChunk(f, i - 1, p)]

\* a chunk list that names the same chunk twice
DupChunks(f) == <<DbChunk(f, 0, 1), DbChunk(f, 0, 2)>>

\* the list of m embeddings a backend returns for chunks of version p
Embeddings(m, p) == [i \in 1..m |-> VectorOf(p, i - 1)]

Range(seq) == {seq[i] : i \in 1..Len(seq)}

\* line 73: f"{chunk['source_filename']}_{chunk['chunk_index']}"
ChunkId(chunk) == chunk.source_filename \o "_" \o ToString(chunk.chunk_index)

\* lines 75-83
ChunkMetadata(chunk) ==
    [start |-> chunk.start, end |-> chunk.end,
     source_filename |-> chunk.source_filename, chunk_index |-> chunk.chunk_index]

IdsOf(coll) == {e.id : e \in coll}

NewEntries(ids, embeddings, documents, metadatas) ==
    {[text |-> documents[i], metadata |-> metadatas[i], id |-> ids[i],
      vector |-> embeddings[i]] : i \in 1..Len(ids)}

\* the vectors of a collection have one length, fixed by the first ones stored
DimensionMismatch(coll, embeddings) ==
    LET dims == IF coll = {} THEN {Len(embeddings[1])} ELSE {Len(e.vector) : e \in coll}
    IN \E k \in 1..Len(embeddings) : Len(embeddings[k]) \notin dims

\* collection.add (lines 86-88)
\* variant: the entries are written before the dimension is checked
EngineAdd_writefirst(coll, ids, embeddings, documents, metadatas) ==
    IF Cardinality(Range(ids)) # Len(ids)
      THEN [raised |-> "DuplicateIDError", coll |-> coll]
      ELSE [raised |-> IF DimensionMismatch(coll, embeddings)
                         THEN "InvalidDimensionException" ELSE None,
            coll |-> coll \cup {e \in NewEntries(ids, embeddings, documents, metadatas) :
                                  e.id \notin IdsOf(coll)}]

\* variant: the entries the collection holds of the documents added go first
EngineAdd_replacing(coll, ids, embeddings, documents, metadatas) ==
    IF Cardinality(Range(ids)) # Len(ids)
      THEN [raised |-> "DuplicateIDError", coll |-> coll]
    ELSE IF DimensionMismatch(coll, embeddings)
      THEN [raised |-> "InvalidDimensionException", coll |-> coll]
      ELSE [raised |-> None,
            coll |-> {e \in coll : \A k \in 1..Len(metadatas) :
                                     e.metadata.source_filename # metadatas[k].source_filename}
                        \cup NewEntries(ids, embeddings, documents, metadatas)]

EngineAdd(coll, ids, embeddings, documents, metadatas) ==
    IF Cardinality(Range(ids)) # Len(ids)
      THEN [raised |-> "DuplicateIDError", coll |-> coll]
    ELSE IF DimensionMismatch(coll, embeddings)
      THEN [raised |-> "InvalidDimensionException", coll |-> coll]
      ELSE [raised |-> None,
            coll |-> coll \cup {e \in NewEntries(ids, embeddings, documents, metadatas) :
                                  e.id \notin IdsOf(coll)}]

\* VectorDatabase.add_documents (lines 64-90): outcome, returned ids, collection
add_documents(coll, chunks_, embeddings) ==
    IF Len(chunks_) = 0 \/ Len(embeddings) = 0
      THEN [index |-> coll, outcome |-> "ok", value |-> <<>>]
    ELSE IF Len(chunks_) # Len(embeddings)
      THEN [index |-> coll, outcome |-> "ValueError", value |-> <<>>]
    ELSE LET ids == [i \in 1..Len(chunks_) |-> ChunkId(chunks_[i])]
             texts == [i \in 1..Len(chunks_) |-> chunks_[i].text]
             metadatas == [i \in 1..Len(chunks_) |-> ChunkMetadata(chunks_[i])]
             r == EngineAdd(coll, ids, embeddings, texts, metadatas)
         IN IF r.raised # None
              THEN [index |-> r.coll, outcome |-> r.raised, value |-> <<>>]
              ELSE [index |-> r.coll, outcome |-> "ok", value |-> ids]

\* variant: only the first chunk of the document is removed
EngineDelete_first(coll, filename) ==
    [raised |-> None,
     coll |-> {e \in coll : ~(e.metadata.source_filename = filename
                               /\ e.metadata.chunk_index = 0)}]

\* variant: the filter also matches the names that continue filename with "_1"
EngineDelete_prefix(coll, filename) ==
    [raised |-> None,
     coll |-> {e \in coll : e.metadata.source_filename \notin {filename, filename \o "_1"}}]

\* variant: a filter that matches nothing is an error
EngineDelete_strict(coll, filename) ==
    IF \A e \in coll : e.metadata.source_filename # filename
      THEN [raised |-> "ValueError", coll |-> coll]
      ELSE [raised |-> None,
            coll |-> {e \in coll : e.metadata.source_filename # filename}]

\* collection.delete(where={"source_filename": filename}) (line 168)
EngineDelete(coll, filename) ==
    [raised |-> None,
     coll |-> {e \in coll : e.metadata.source_filename # filename}]

\* VectorDatabase.delete_document (lines 166-172): True when the engine call
\* returns, False from the except branch when it raises
delete_document(coll, filename) ==
    LET r == EngineDelete(coll, filename) IN
      IF r.raised = None
        THEN [index |-> r.coll, success |-> TRUE]
        ELSE [index |-> r.coll, success |-> FALSE]

\* variant: the names in the opposite order
list_documents_reversed(coll) ==
    LET filenames == {e.metadata.source_filename : e \in coll}
        n == Len(FilenameOrder)
    IN SelectSeq([i \in 1..n |-> FilenameOrder[n + 1 - i]], LAMBDA f : f \in filenames)

\* VectorDatabase.list_documents (lines 143-154)
list_documents(coll) ==
    LET filenames == {e.metadata.source_filename : e \in coll}
    IN SelectSeq(FilenameOrder, LAMBDA f : f \in filenames)

RECURSIVE SumSq(_, _, _)
SumSq(u, v, i) ==
    IF i > Len(u) THEN 0
    ELSE (u[i] - v[i]) * (u[i] - v[i]) + SumSq(u, v, i + 1)

\* the distance the engine reports for a query vector and a stored vector
Distance(u, v) == SumSq(u, v, 1)

\* the entries of coll nearest to the query
Nearest(coll, query) ==
    {e \in coll : \A o \in coll :
        Distance(query, e.vector) <= Distance(query, o.vector)}

\* collection.query (lines 105-109): the rankings the engine may return, the
\* n_results nearest entries by non-decreasing distance, ties in any order
RECURSIVE EngineQuery(_, _, _)
EngineQuery(coll, query, n_results) ==
    IF n_results <= 0 \/ coll = {}
      THEN {<<>>}
      ELSE UNION {{<<e>> \o r : r \in EngineQuery(coll \ {e}, query, n_results - 1)} :
                    e \in Nearest(coll, query)}

\* variant: no floor at 0
SimilarityOver_nofloor(den, num) == Min(2 * den, 2 * den - num)

\* line 122 for the distance num/den, as a count of 1/(2*den):
\* max(0.0, min(1.0, (2.0 - distance) / 2.0))
SimilarityOver(den, num) == Max(0, Min(2 * den, 2 * den - num))

\* variant: the distance taken for the similarity
Similarity2_direct(distance) == Max(0, Min(2, distance))

\* line 122, in halves: max(0.0, min(1.0, (2.0 - distance) / 2.0)) * 2
Similarity2(distance) == SimilarityOver(1, distance)

\* lines 117-131; score2 is twice the score
FormatResults(matches, query) ==
    [i \in 1..Len(matches) |->
       [text |-> matches[i].text, metadata |-> matches[i].metadata,
        id |-> matches[i].id,
        score2 |-> Similarity2(Distance(query, matches[i].vector))]]

\* filenames named by the chunks of an add that returned their ids
AddedFilenames(chunks_, r) ==
    IF r.outcome = "ok" /\ Len(r.value) > 0
      THEN {chunks_[i].source_filename : i \in 1..Len(chunks_)}
      ELSE {}

AddDocuments(chunks_, embeddings) ==
    LET r == add_documents(index, chunks_, embeddings) IN
      /\ dbCall' = [NoDbCall EXCEPT !.op = "add", !.chunks = chunks_,
                                    !.embeddings = embeddings]
      /\ dbRet' = [outcome |-> r.outcome, value |-> r.value, success |-> FALSE]
      /\ index' = r.index
      /\ indexBefore' = index
      /\ deleted' = deleted \ AddedFilenames(chunks_, r)
      /\ UNCHANGED <<splitVars, extVars>>

DeleteDocument(filename) ==
    LET r == delete_document(index, filename) IN
      /\ dbCall' = [NoDbCall EXCEPT !.op = "delete", !.filename = filename]
      /\ dbRet' = [outcome |-> "ok", value |-> <<>>, success |-> r.success]
      /\ index' = r.index
      /\ indexBefore' = index
      /\ deleted' = deleted \cup {filename}
      /\ UNCHANGED <<splitVars, extVars>>

ListDocuments ==
    /\ dbCall' = [NoDbCall EXCEPT !.op = "list"]
    /\ dbRet' = [outcome |-> "ok", value |-> list_documents(index), success |-> FALSE]
    /\ indexBefore' = index
    /\ UNCHANGED <<index, deleted>>
    /\ UNCHANGED <<splitVars, extVars>>

\* VectorDatabase.search (lines 105-133); the engine refuses n_results < 1
Search(query, top_k) ==
    /\ dbCall' = [NoDbCall EXCEPT !.op = "search", !.query = query, !.top_k = top_k]
    /\ IF top_k < 1
         THEN dbRet' = [outcome |-> "ValueError", value |-> <<>>, success |-> FALSE]
         ELSE \E matches \in EngineQuery(index, query, top_k) :
                dbRet' = [outcome |-> "ok", value |-> FormatResults(matches, query),
                          success |-> FALSE]
    /\ indexBefore' = index
    /\ UNCHANGED <<index, deleted>>
    /\ UNCHANGED <<splitVars, extVars>>

DbNext ==
    \/ \E f \in Filenames, n, m \in 0..MaxBatch, p \in Versions :
          AddDocuments(DocChunks(f, n, p), Embeddings(m, p))
    \/ \E f \in Filenames, p \in Versions :
          AddDocuments(DupChunks(f), Embeddings(Len(DupChunks(f)), p))
    \/ \E f \in Filenames : DeleteDocument(f)
    \/ ListDocuments
    \/ \E q \in QueryVectors, k \in 0..MaxTopK : Search(q, k)

DbSpec == Init /\ [][DbNext]_vars

(***************************************************************************)
(* The score of one result (search, lines 117-131) for any distance the    *)
(* engine may report, from -2 to 4 in steps of 1/DistanceDen.              *)
(***************************************************************************)
Distances == (-2 * DistanceDen)..(4 * DistanceDen)

ScoreResult(distance) ==
    /\ scoreCall' = [called |-> TRUE, distance |-> distance,
                     score |-> SimilarityOver(DistanceDen, distance)]
    /\ UNCHANGED <<splitVars, dbVars, fileVars, embVars, appVars, moreVars>>

ScoreNext == \E d \in Distances : ScoreResult(d)

ScoreSpec == Init /\ [][ScoreNext]_vars

(***************************************************************************)
(* FileProcessor.validate_file (src/src/file_processor.py).  A path is a   *)
(* sequence of characters, so that os.path.splitext and str.lower are      *)
(* computed as the library computes them.                                  *)
(***************************************************************************)
\* str.rfind, counting positions from 1: 0 when the character is absent
RFind(p, c) ==
    LET hits == {k \in 1..Len(p) : p[k] = c}
    IN IF hits = {} THEN 0 ELSE CHOOSE k \in hits : \A h \in hits : h <= k

\* the extension os.path.splitext(p)[1]: from the last dot of the last path
\* component, unless that component has only dots before it
SplitExt(p) ==
    LET sepIndex == RFind(p, "/")
        dotIndex == RFind(p, ".")
    IN IF dotIndex > sepIndex /\ \E k \in (sepIndex + 1)..(dotIndex - 1) : p[k] # "."
       THEN SubSeq(p, dotIndex, Len(p))
       ELSE <<>>

\* str.lower on the letters that occur in the paths
LowerChar(c) ==
    IF c = "M" THEN "m"
    ELSE IF c = "D" THEN "d"
    ELSE IF c = "T" THEN "t"
    ELSE IF c = "X" THEN "x"
    ELSE c

Lower(str) == [k \in 1..Len(str) |-> LowerChar(str[k])]

\* variant: a file of exactly the maximum size is refused
validate_file_ge(proc, file_path, file_size) ==
    LET ext == SplitExt(file_path)
    IN IF Lower(ext) \notin Range(proc.allowed_extensions)
       THEN [ok |-> FALSE, reason |-> [kind |-> "extension", ext |-> ext, size |-> 0]]
       ELSE IF file_size >= proc.max_file_size_bytes
       THEN [ok |-> FALSE, reason |-> [kind |-> "size", ext |-> <<>>, size |-> file_size]]
       ELSE [ok |-> TRUE, reason |-> NoReason]

\* FileProcessor.validate_file (lines 54-81): the returned pair; the reason
\* keeps what the message names (the extension, or the size)
validate_file(proc, file_path, file_size) ==
    LET ext == SplitExt(file_path)
    IN IF Lower(ext) \notin Range(proc.allowed_extensions)
       THEN [ok |-> FALSE, reason |-> [kind |-> "extension", ext |-> ext, size |-> 0]]
       ELSE IF file_size > proc.max_file_size_bytes
       THEN [ok |-> FALSE, reason |-> [kind |-> "size", ext |-> <<>>, size |-> file_size]]
       ELSE [ok |-> TRUE, reason |-> NoReason]

Chars(str) ==
    CASE str = "a.md" -> <<"a", ".", "m", "d">>
      [] str = "/t/a.md" -> <<"/", "t", "/", "a", ".", "m", "d">>
      [] str = "/t/a.MD" -> <<"/", "t", "/", "a", ".", "M", "D">>
      [] str = "/t/a.Md" -> <<"/", "t", "/", "a", ".", "M", "d">>
      [] str = "/t/a.txt" -> <<"/", "t", "/", "a", ".", "t", "x", "t">>
      [] str = "/t/a.TXT" -> <<"/", "t", "/", "a", ".", "T", "X", "T">>
      [] str = "/t/a" -> <<"/", "t", "/", "a">>
      [] str = "/t/.md" -> <<"/", "t", "/", ".", "m", "d">>
      [] str = "/t/..md" -> <<"/", "t", "/", ".", ".", "m", "d">>
      [] str = "/t.md/a" -> <<"/", "t", ".", "m", "d", "/", "a">>
      [] str = "/t/a.md.txt" -> <<"/", "t", "/", "a", ".", "m", "d", ".", "t", "x", "t">>
      [] str = "/t/a.txt.md" -> <<"/", "t", "/", "a", ".", "t", "x", "t", ".", "m", "d">>
      [] str = "/t/a." -> <<"/", "t", "/", "a", ".">>
      [] str = "/t/b.md" -> <<"/", "t", "/", "b", ".", "m", "d">>
      [] str = "/t/e.md" -> <<"/", "t", "/", "e", ".", "m", "d">>
      [] str = ".md" -> <<".", "m", "d">>
      [] str = ".MD" -> <<".", "M", "D">>
      [] str = ".txt" -> <<".", "t", "x", "t">>

Paths ==
    {Chars(str) : str \in {"a.md", "/t/a.md", "/t/a.MD", "/t/a.Md", "/t/a.txt",
                           "/t/a.TXT", "/t/a", "/t/.md", "/t/..md", "/t.md/a",
                           "/t/a.md.txt", "/t/a.txt.md", "/t/a."}}

AllowLists ==
    {<<Chars(".md")>>, <<Chars(".md"), Chars(".txt")>>, <<Chars(".MD")>>}

\* maximum sizes in MB handed to FileProcessor.__init__ (5.0 by default)
MaxSizesMb == {0, 1, 5}

\* file sizes in bytes: small ones, 2 MB (as in tests.py) and the sizes
\* around each maximum
FileSizes ==
    LET around == {mb * 1024 * 1024 + k : mb \in MaxSizesMb, k \in {-1, 0, 1}}
    IN {0, 1024, 2 * 1024 * 1024} \cup {sz \in around : sz >= 0}

NewFileProcessor(allowed_extensions, max_file_size_mb) ==
    /\ fileProc' = FileProcessor_init(allowed_extensions, max_file_size_mb)
    /\ valCall' = NoValCall
    /\ UNCHANGED <<splitVars, dbVars, scoreVars, embVars, appVars, moreVars>>

ValidateFile(file_path, file_size) ==
    LET ret == validate_file(fileProc, file_path, file_size)
    IN /\ valCall' = [called |-> TRUE, file_path |-> file_path, file_size |-> file_size,
                      ok |-> ret.ok, reason |-> ret.reason]
       /\ UNCHANGED fileProc
       /\ UNCHANGED <<splitVars, dbVars, scoreVars, embVars, appVars, moreVars>>

FileNext ==
    \/ \E al \in AllowLists, mb \in MaxSizesMb : NewFileProcessor(al, mb)
    \/ \E p \in Paths, sz \in FileSizes : ValidateFile(p, sz)

FileSpec == Init /\ [][FileNext]_vars

(***************************************************************************)
(* The embedding providers (src/src/embedding_provider.py).  A text is a   *)
(* sequence of characters; the upstream model is a function of the text    *)
(* and the model name.                                                     *)
(***************************************************************************)
\* embed_texts is handed up to one text more than the endpoint takes
MaxEmbedTexts == BatchCeiling + 1

OpenAIModels == {"text-embedding-3-small", "text-embedding-ada-002", "text-embedding-3-large"}
LocalModels == {"all-MiniLM-L6-v2"}

\* length of the vectors of a model, scaled down: text-embedding-3-large has
\* longer vectors than the two other OpenAI models, which have the same length
Dimension(model_name) ==
    IF model_name = "text-embedding-3-large" THEN 3
    ELSE IF model_name = "all-MiniLM-L6-v2" THEN 1
    ELSE 2

ModelCode(model_name) ==
    CASE model_name = "text-embedding-3-small" -> 1
      [] model_name = "text-embedding-ada-002" -> 2
      [] model_name = "text-embedding-3-large" -> 3
      [] model_name = "all-MiniLM-L6-v2" -> 4

CharCode(c) ==
    IF c = "x" THEN 1
    ELSE IF c = "y" THEN 2
    ELSE IF c = " " THEN 3
    ELSE 4

\* a number that tells one text from another
RECURSIVE TextCode(_)
TextCode(text) ==
    IF text = <<>> THEN 0 ELSE CharCode(Head(text)) + 5 * TextCode(Tail(text))

\* the vector the model computes for one text: its first coordinate depends on
\* the text and the model, the others pad it to the model's dimension
ModelVector(model_name, text) ==
    [k \in 1..Dimension(model_name) |->
        IF k = 1 THEN 4 * TextCode(text) + ModelCode(model_name) - 1 ELSE ModelCode(model_name)]

\* the upstream limit on the inputs of one request: the OpenAI endpoint has
\* one, SentenceTransformer.encode has none (0)
Ceiling(prov) ==
    IF prov.backend = "OpenAIEmbeddingProvider" THEN BatchCeiling ELSE 0

\* one provider call: client.embeddings.create (line 48) or model.encode
\* (line 87).  It fails when upstream is down (up = FALSE), and the OpenAI
\* endpoint refuses an empty input and one above its limit; otherwise it
\* returns one vector per input, in the order of the inputs.
ProviderCall(prov, batch, up) ==
    IF ~up THEN [outcome |-> "APIError", data |-> <<>>]
    ELSE IF Ceiling(prov) > 0 /\ (Len(batch) = 0 \/ Len(batch) > Ceiling(prov))
    THEN [outcome |-> "BadRequestError", data |-> <<>>]
    ELSE [outcome |-> "ok",
          data |-> [k \in 1..Len(batch) |-> ModelVector(prov.model_name, batch[k])]]

\* str.replace("\n", " ") (line 46)
ReplaceNewlines(text) == [k \in 1..Len(text) |-> IF text[k] = "\n" THEN " " ELSE text[k]]

\* what a provider hands upstream for one text
Prepared(prov, text) ==
    IF prov.backend = "OpenAIEmbeddingProvider" THEN ReplaceNewlines(text) ELSE text

\* variant: no early return for an empty list
embed_texts_noguard(prov, texts, up) ==
    LET sent == [k \in 1..Len(texts) |-> Prepared(prov, texts[k])]
        response == ProviderCall(prov, sent, up)
    IN [api_calls |-> <<sent>>, outcome |-> response.outcome, value |-> response.data]

\* OpenAIEmbeddingProvider.embed_texts (lines 31-55) and
\* SentenceTransformerEmbeddingProvider.embed_texts (lines 73-93): an empty
\* list returns [] at once; otherwise one provider call with all the texts,
\* whose error is raised again
embed_texts(prov, texts, up) ==
    IF texts = <<>>
    THEN [api_calls |-> <<>>, outcome |-> "ok", value |-> <<>>]
    ELSE LET sent == [k \in 1..Len(texts) |-> Prepared(prov, texts[k])]
             response == ProviderCall(prov, sent, up)
         IN [api_calls |-> <<sent>>, outcome |-> response.outcome, value |-> response.data]

EmbedTextSet == {<<"x">>, <<"y", "\n", "x">>, <<"y", " ", "x">>}

\* the lists of a list of lists, one after the other
RECURSIVE Flatten(_)
Flatten(lists) == IF lists = <<>> THEN <<>> ELSE Head(lists) \o Flatten(Tail(lists))

RECURSIVE SeqsUpTo(_, _)
SeqsUpTo(S, n) ==
    IF n = 0 THEN {<<>>}
    ELSE LET shorter == SeqsUpTo(S, n - 1)
         IN shorter \cup {Append(q, x) : q \in {r \in shorter : Len(r) = n - 1}, x \in S}

NewOpenAIProvider(model_name, has_key) ==
    /\ provider' = IF has_key THEN OpenAIEmbeddingProvider(model_name) ELSE provider
    /\ embCall' = NoEmbCall
    /\ UNCHANGED <<splitVars, dbVars, scoreVars, fileVars, appVars, moreVars>>

NewLocalProvider(model_name) ==
    /\ provider' = SentenceTransformerEmbeddingProvider(model_name)
    /\ embCall' = NoEmbCall
    /\ UNCHANGED <<splitVars, dbVars, scoreVars, fileVars, appVars, moreVars>>

EmbedTexts(texts, up) ==
    LET ret == embed_texts(provider, texts, up)
    IN /\ embCall' = [called |-> TRUE, texts |-> texts, api_calls |-> ret.api_calls,
                      outcome |-> ret.outcome, value |-> ret.value]
       /\ UNCHANGED provider
       /\ UNCHANGED <<splitVars, dbVars, scoreVars, fileVars, appVars, moreVars>>

EmbedNext ==
    \/ \E m \in OpenAIModels, k \in BOOLEAN : NewOpenAIProvider(m, k)
    \/ \E m \in LocalModels : NewLocalProvider(m)
    \/ \E texts \in SeqsUpTo(EmbedTextSet, MaxEmbedTexts), up \in BOOLEAN : EmbedTexts(texts, up)

EmbedSpec == Init /\ [][EmbedNext]_vars

(***************************************************************************)
(* MarkdownVectorApp (src/app.py): construction and process_files, one     *)
(* action per document of the batch.  The collection of its vector_db is   *)
(* index; it is kept on disk, so it outlives the app object.               *)
(***************************************************************************)
MaxFiles == 2         \* longest batch handed to process_files

\* app.py lines 16-17
DEFAULT_CHUNK_SIZE == 1000
DEFAULT_CHUNK_OVERLAP == 200

\* main(), line 566: os.getenv("COLLECTION_NAME", "markdown_documents")
BaseCollectionName == "markdown_documents"

\* the name VectorDatabase is given for its collection (line 58): the
\* configured name as it is, whatever the provider
CollectionNameOf(collection_name, prov) == collection_name

\* the split loop of split_text from position s on (text_splitter.py lines 61-79)
RECURSIVE SplitFrom(_, _, _, _)
SplitFrom(text, sp, s, metadata) ==
    IF ~(s < Len(text)) THEN <<>>
    ELSE LET end == ChunkEnd(s, sp.chunk_size, Len(text))
         IN <<MakeChunk(text, s, end, metadata)>>
               \o SplitFrom(text, sp, NextStart(end, sp.chunk_overlap, Len(text)), metadata)

\* TextSplitter.split_file as a value (lines 84-104)
SplitFileResult(sp, file_path, file_content) ==
    WithChunkIndex(SplitFrom(file_content, sp, 0, file_path))

RECURSIVE JoinChars(_)
JoinChars(p) == IF p = <<>> THEN "" ELSE Head(p) \o JoinChars(Tail(p))

\* os.path.basename (line 115)
Basename(p) == JoinChars(SubSeq(p, RFind(p, "/") + 1, Len(p)))

\* the processor process_files builds for one call (lines 99-105): default
\* extensions, the size limit of the app's own processor
TempFileProcessor(a) ==
    FileProcessor_init(DefaultFileProcessor.allowed_extensions,
                       a.file_processor.max_file_size_bytes \div (1024 * 1024))

Failure(file_name, kind, detail) ==
    [reason |-> [kind |-> kind, detail |-> detail], filename |-> file_name]

\* what one iteration of the loop leaves behind
Outcome(st, raised, kind, detail, emb) ==
    [index |-> st.index, raised |-> raised, kind |-> kind,
     detail |-> detail, emb_outcome |-> emb.outcome,
     emb_value |-> emb.value, failed_files |-> st.failed_files,
     successful_files |-> st.successful_files, total_chunks |-> st.total_chunks]

Failed(st, file_name, kind, detail, emb) ==
    [Outcome(st, None, kind, detail, emb)
        EXCEPT !.failed_files = Append(st.failed_files, Failure(file_name, kind, detail))]

NoEmb == [outcome |-> "none", value |-> <<>>]

\* variant: the error is swallowed, the document is recorded nowhere
OnProcessingError_silent(st, file_name, detail, emb) ==
    Outcome(st, None, "error", detail, emb)

\* variant: the collection is put back to what it was when the batch began
OnProcessingError_rollback(st, file_name, detail, emb) ==
    [Failed(st, file_name, "error", detail, emb) EXCEPT !.index = st.index_at_start]

\* the except branch of process_files (lines 152-155)
OnProcessingError(st, file_name, detail, emb) ==
    Failed(st, file_name, "error", detail, emb)

\* one iteration of the for loop of process_files (lines 111-155) on the
\* locals st, for a file [path, size, content] that at this moment exists or
\* not, can be read or not, while the provider is up or not and its backend
\* answers with a vector for every text or with an empty list
process_file(st, file, env) ==
    LET file_path == file.path
        file_name == Basename(file_path)
        valid == validate_file(st.temp_file_processor, file_path, file.size)
        chunks_ == SplitFileResult(st.text_splitter, file_name, file.content)
        texts == [k \in 1..Len(chunks_) |-> chunks_[k].text]
        answer == embed_texts(st.embedding_provider, texts, env.up)
        emb == IF answer.outcome # "ok" \/ env.vectors = "all" THEN answer
               ELSE [answer EXCEPT !.value = <<>>]
        added == add_documents(st.index, chunks_, emb.value)
    IN IF ~env.exists
         THEN \* os.path.getsize (line 114) raises, outside any try
              Outcome(st, "FileNotFoundError", "raised", "FileNotFoundError", NoEmb)
       ELSE IF ~valid.ok
         THEN Failed(st, file_name, "validation", valid.reason.kind, NoEmb)
       ELSE IF ~env.readable
         THEN \* read_file_content returned None
              Failed(st, file_name, "read", "", NoEmb)
       ELSE IF chunks_ = <<>>
         THEN Failed(st, file_name, "empty", "", NoEmb)
       ELSE IF emb.outcome # "ok"
         THEN OnProcessingError(st, file_name, emb.outcome, emb)
       ELSE IF added.outcome # "ok"
         THEN \* the collection is as the failed add left it
              OnProcessingError([st EXCEPT !.index = added.index], file_name,
                                added.outcome, emb)
       ELSE [Outcome(st, None, "ok", "", emb)
                EXCEPT !.index = added.index,
                       !.successful_files = Append(st.successful_files, file_name),
                       !.total_chunks = st.total_chunks + Len(chunks_)]

\* the documents handed to process_files: a path, the size of the file and
\* its content once read and cleaned
AppFiles ==
    {[size |-> 1024, content |-> <<"x", "y">>, path |-> Chars("/t/a.md")],
     [size |-> 1024, content |-> <<"y">>, path |-> Chars("/t/b.md")],
     [size |-> 1024, content |-> <<"x">>, path |-> Chars("/t/a.txt")],
     [size |-> 0, content |-> <<>>, path |-> Chars("/t/e.md")]}

\* chunk_size and chunk_overlap handed to process_files: a pair TextSplitter
\* takes and one it refuses
ChunkConfigs == {<<2, 0>>, <<1, 1>>}

\* MarkdownVectorApp.__init__ (lines 56-65), in a new process: without an API
\* key OpenAIEmbeddingProvider raises and no app comes up
StartApp(model_name, has_key) ==
    /\ run.pc # "loop"
    /\ app' = IF ~has_key THEN NoApp
              ELSE [started |-> TRUE,
                    text_splitter |-> [constructed |-> TRUE,
                                       chunk_size |-> DEFAULT_CHUNK_SIZE,
                                       chunk_overlap |-> DEFAULT_CHUNK_OVERLAP],
                    embedding_provider |-> OpenAIEmbeddingProvider(model_name),
                    file_processor |-> DefaultFileProcessor,
                    collection_name |->
                       CollectionNameOf(BaseCollectionName, OpenAIEmbeddingProvider(model_name))]
    /\ run' = NoRun
    /\ UNCHANGED <<splitVars, dbVars, scoreVars, fileVars, embVars, moreVars>>

\* entry of process_files (lines 91-109) for a batch of n files; which files
\* they are is drawn as the loop meets them
process_files(n, chunk_size, chunk_overlap) ==
    /\ app.started
    /\ run.pc # "loop"
    /\ LET err == InitError(chunk_size, chunk_overlap) IN
         IF n = 0
           THEN /\ run' = [NoRun EXCEPT !.pc = "returned",
                                        !.result = [NoResult EXCEPT !.status = "error"]]
                /\ UNCHANGED app
         ELSE IF err # None
           THEN \* TextSplitter(chunk_size, chunk_overlap) raises (line 96)
                /\ run' = [NoRun EXCEPT !.pc = "raised", !.n = n, !.raised = err]
                /\ UNCHANGED app
           ELSE /\ app' = [app EXCEPT !.text_splitter =
                                [constructed |-> TRUE, chunk_size |-> chunk_size,
                                 chunk_overlap |-> chunk_overlap]]
                /\ run' = [NoRun EXCEPT !.pc = "loop", !.n = n, !.i = 1,
                                        !.index_at_start = index]
    /\ UNCHANGED <<splitVars, dbVars, scoreVars, fileVars, embVars, moreVars>>

\* the loop body for the next document of the batch
ProcessNextFile(file, env) ==
    /\ run.pc = "loop"
    /\ run.i <= run.n
    /\ LET st == [index |-> index,
                  text_splitter |-> app.text_splitter,
                  embedding_provider |-> app.embedding_provider,
                  failed_files |-> run.failed_files, successful_files |-> run.successful_files,
                  total_chunks |-> run.total_chunks,
                  index_at_start |-> run.index_at_start,
                  temp_file_processor |-> TempFileProcessor(app)]
           out == process_file(st, file, env)
       IN /\ index' = out.index
          /\ run' = [run EXCEPT
                        !.files = Append(run.files, file),
                        !.pc = IF out.raised = None THEN "loop" ELSE "raised",
                        !.raised = out.raised,
                        !.i = IF out.raised = None THEN run.i + 1 ELSE run.i,
                        !.successful_files = out.successful_files,
                        !.failed_files = out.failed_files,
                        !.total_chunks = out.total_chunks,
                        !.last = [kind |-> out.kind, filename |-> Basename(file.path),
                                  detail |-> out.detail, emb_outcome |-> out.emb_outcome,
                                  emb_value |-> out.emb_value, index_before |-> index,
                                  successful_before |-> run.successful_files]]
    /\ UNCHANGED app
    /\ UNCHANGED <<indexBefore, dbCall, dbRet, deleted>>
    /\ UNCHANGED <<splitVars, scoreVars, fileVars, embVars, moreVars>>

\* the return of process_files (lines 157-163)
ProcessReturn ==
    /\ run.pc = "loop"
    /\ run.i > run.n
    /\ run' = [run EXCEPT
                  !.pc = "returned",
                  !.result = [status |-> IF run.successful_files # <<>> THEN "success" ELSE "error",
                              ingested_files |-> run.successful_files,
                              failed_files |-> run.failed_files]]
    /\ UNCHANGED app
    /\ UNCHANGED <<splitVars, dbVars, scoreVars, fileVars, embVars, moreVars>>

Envs == [up : BOOLEAN, vectors : {"all", "none"}, exists : BOOLEAN,
         readable : BOOLEAN]

AppNext ==
    \/ \E m \in OpenAIModels, k \in BOOLEAN : StartApp(m, k)
    \/ \E n \in 0..MaxFiles, cfg \in ChunkConfigs : process_files(n, cfg[1], cfg[2])
    \/ \E file \in AppFiles, env \in Envs : ProcessNextFile(file, env)
    \/ ProcessReturn

AppSpec == Init /\ [][AppNext]_vars


(***************************************************************************)
(* MarkdownVectorApp.search_documents (app.py lines 165-203) on the app    *)
(* and its collection, after any sequence of ingestions and deletions.     *)
(***************************************************************************)
\* variant: no except clause, the error leaves the call
search_documents_uncaught(a, coll, query, top_k, up) ==
    LET emb == embed_texts(a.embedding_provider, <<query>>, up)
        Ended(error, query_embedding, value) ==
            [raised |-> error, value |-> value,
             query_embedding |-> query_embedding, error |-> error]
        Formatted(results) ==
            [k \in 1..Len(results) |->
               [start |-> results[k].metadata.start,
                text |-> results[k].text,
                score |-> CASE results[k].score2 = 0 -> "0.0000"
                            [] results[k].score2 = 1 -> "0.5000"
                            [] OTHER -> "1.0000",
                filename |-> results[k].metadata.source_filename,
                end |-> results[k].metadata.end,
                chunk_index |-> results[k].metadata.chunk_index]]
    IN IF query = <<>> THEN {Ended(None, <<>>, <<>>)}
       ELSE IF emb.outcome # "ok" THEN {Ended(emb.outcome, <<>>, <<>>)}
       ELSE IF emb.value = <<>> THEN {Ended("IndexError", <<>>, <<>>)}
       ELSE IF top_k < 1 THEN {Ended("ValueError", emb.value[1], <<>>)}
       ELSE IF \E e \in coll : Len(e.vector) # Len(emb.value[1])
         THEN {Ended("InvalidDimensionException", emb.value[1], <<>>)}
       ELSE {Ended(None, emb.value[1], Formatted(FormatResults(matches, emb.value[1]))) :
                matches \in EngineQuery(coll, emb.value[1], top_k)}

\* the ways search_documents(query, top_k) can end: the embedding of the
\* query (line 181), VectorDatabase.search (line 184; the engine refuses
\* n_results < 1 and a query of another dimension than the collection's), the
\* formatting (lines 187-199, the score as f"{score:.4f}"), and the except
\* clause that turns every error into the empty list (lines 201-203)
search_documents(a, coll, query, top_k, up) ==
    LET emb == embed_texts(a.embedding_provider, <<query>>, up)
        Ended(error, query_embedding, value) ==
            [raised |-> None, value |-> value,
             query_embedding |-> query_embedding, error |-> error]
        Formatted(results) ==
            [k \in 1..Len(results) |->
               [start |-> results[k].metadata.start,
                text |-> results[k].text,
                score |-> CASE results[k].score2 = 0 -> "0.0000"
                            [] results[k].score2 = 1 -> "0.5000"
                            [] OTHER -> "1.0000",
                filename |-> results[k].metadata.source_filename,
                end |-> results[k].metadata.end,
                chunk_index |-> results[k].metadata.chunk_index]]
    IN IF query = <<>> THEN {Ended(None, <<>>, <<>>)}
       ELSE IF emb.outcome # "ok" THEN {Ended(emb.outcome, <<>>, <<>>)}
       ELSE IF emb.value = <<>> THEN {Ended("IndexError", <<>>, <<>>)}
       ELSE IF top_k < 1 THEN {Ended("ValueError", emb.value[1], <<>>)}
       ELSE IF \E e \in coll : Len(e.vector) # Len(emb.value[1])
         THEN {Ended("InvalidDimensionException", emb.value[1], <<>>)}
       ELSE {Ended(None, emb.value[1], Formatted(FormatResults(matches, emb.value[1]))) :
                matches \in EngineQuery(coll, emb.value[1], top_k)}

\* one call of search_documents between two process_files calls; it changes
\* nothing in the app or the collection, so a behaviour ends with it
SearchDocuments(query, top_k, up) ==
    /\ app.started
    /\ run.pc # "loop"
    /\ ~srch.called
    /\ \E r \in search_documents(app, index, query, top_k, up) :
          srch' = [called |-> TRUE, raised |-> r.raised, value |-> r.value,
                   query |-> query, top_k |-> top_k,
                   query_embedding |-> r.query_embedding, error |-> r.error]
    /\ UNCHANGED <<splitVars, dbVars, scoreVars, fileVars, embVars, appVars, cleanCall, procs>>

\* MarkdownVectorApp.delete_document (lines 213-230) for a filename that is
\* not empty, between two process_files calls
AppDeleteDocument(filename) ==
    /\ app.started
    /\ run.pc # "loop"
    /\ index' = delete_document(index, filename).index
    /\ UNCHANGED <<indexBefore, dbCall, dbRet, deleted>>
    /\ UNCHANGED <<splitVars, scoreVars, fileVars, embVars, appVars, moreVars>>

\* an app with a model of two or of three dimensions; ingestions of the
\* single documents a.md and b.md, present and readable, with chunk_size 1 or
\* 2, the backend answering in full when it is up; deletions; and a search
QueryNext ==
    \/ /\ ~srch.called
       /\ \/ \E m \in {"text-embedding-3-small", "text-embedding-3-large"} : StartApp(m, TRUE)
          \/ \E chunk_size \in 1..2 : process_files(1, chunk_size, 0)
          \/ \E file \in {f \in AppFiles : Basename(f.path) \in {"a.md", "b.md"}},
                env \in {e \in Envs : e.exists /\ e.readable /\ e.vectors = "all"} :
                   ProcessNextFile(file, env)
          \/ ProcessReturn
          \/ \E filename \in {"a.md", "b.md"} : AppDeleteDocument(filename)
    \/ \E query \in {<<>>, <<"x">>, <<"y">>}, top_k \in 0..MaxTopK, up \in BOOLEAN :
          SearchDocuments(query, top_k, up)

QuerySpec == Init /\ [][QueryNext]_vars

(***************************************************************************)
(* Two process_files calls on one MarkdownVectorApp, each in its own       *)
(* thread of the server (create_ui, app.py lines 377-389, hands the bound  *)
(* method app.process_files to the upload button; nothing in app.py holds  *)
(* a lock).  A thread can be suspended between any two statements, so a    *)
(* step is the entry of a call, with the assignment to self.text_splitter  *)
(* (line 96), or one iteration of its loop, with the read of               *)
(* self.text_splitter (line 134).                                          *)
(***************************************************************************)
\* call p enters process_files(files, chunk_size, chunk_overlap) with n files
ConcProcessFiles(p, n, chunk_size, chunk_overlap) ==
    /\ app.started
    /\ procs[p].pc # "loop"
    /\ IF InitError(chunk_size, chunk_overlap) # None
         THEN /\ procs' = [procs EXCEPT ![p] = [NoProcs[p] EXCEPT !.pc = "raised"]]
              /\ UNCHANGED app
         ELSE /\ app' = [app EXCEPT !.text_splitter =
                              [constructed |-> TRUE, chunk_size |-> chunk_size,
                               chunk_overlap |-> chunk_overlap]]
              /\ procs' = [procs EXCEPT ![p] =
                              [pc |-> "loop", chunk_size |-> chunk_size, chunk_overlap |-> chunk_overlap,
                               n |-> n, split_with |-> <<>>]]
    /\ UNCHANGED run
    /\ UNCHANGED <<splitVars, dbVars, scoreVars, fileVars, embVars, cleanCall, srch>>

\* call p splits its next document with the splitter the app holds now
\* (line 134), and returns after its last document
ConcSplitFile(p) ==
    /\ procs[p].pc = "loop"
    /\ procs' = [procs EXCEPT
                    ![p].split_with = Append(@, app.text_splitter),
                    ![p].pc = IF Len(procs[p].split_with) + 1 = procs[p].n
                                THEN "returned" ELSE "loop"]
    /\ UNCHANGED <<splitVars, dbVars, scoreVars, fileVars, embVars, appVars, cleanCall, srch>>

ConcNext ==
    \/ /\ \A p \in 1..2 : procs[p].pc # "loop"
       /\ StartApp(DEFAULT_MODEL, TRUE)
    \/ \E p \in 1..2, n \in 1..MaxFiles, cfg \in ChunkConfigs \cup {<<1, 0>>} :
          ConcProcessFiles(p, n, cfg[1], cfg[2])
    \/ \E p \in 1..2 : ConcSplitFile(p)

ConcSpec == Init /\ [][ConcNext]_vars

(***************************************************************************)
(* MarkdownCleaner (markdown_cleaner.py).  A content is a sequence of       *)
(* one-character strings.  The regular expressions of the cleaner are       *)
(* sequences of items: a line anchor, or a character class with a           *)
(* repetition range, greedy or lazy, possibly the pattern's one capture     *)
(* group.  Matching is the backtracking search of Python's re: every item   *)
(* tries its lengths in its order of preference, and the first complete     *)
(* match wins.                                                              *)
(***************************************************************************)
Unbounded == 0 - 1

\* the grave accent U+0060, which a TLA+ string cannot hold
Backtick == "U+0060"

\* \s, and \w over the letters the contents are made of
Whitespace == {" ", "\n", "\t", "\r"}
WordChars == {"a", "b", "x", "y", "_", "0", "1", "2", "3", "4", "5", "6", "7", "8", "9"}

\* a class item: chars (negated or not) repeated min..max times
Item(chars, neg, min, max, greedy, group) ==
    [kind |-> "class", chars |-> chars, neg |-> neg, min |-> min, max |-> max,
     greedy |-> greedy, group |-> group]
\* ^ and $ under re.MULTILINE (the only patterns with anchors are applied with it)
Bol == [Item({}, FALSE, 0, 0, TRUE, FALSE) EXCEPT !.kind = "bol"]
Eol == [Item({}, FALSE, 0, 0, TRUE, FALSE) EXCEPT !.kind = "eol"]
\* one literal character
Ch(c) == Item({c}, FALSE, 1, 1, TRUE, FALSE)

\* pattern.match(s, i): whether pat matches at position i of s, where the
\* match ends and the span [gs, ge) of the capture group
Match(pat, s, i) ==
    LET NoMatch == [ok |-> FALSE, end |-> 0, gs |-> 0, ge |-> 0]
        \* the longest run of characters of the item's class from j, up to max
        RECURSIVE RunLen(_, _, _)
        RunLen(item, j, n) ==
            IF \/ (item.max # Unbounded /\ n = item.max)
               \/ j + n > Len(s)
               \/ (s[j + n] \in item.chars) = item.neg
            THEN n
            ELSE RunLen(item, j, n + 1)
        RECURSIVE MatchItems(_, _)
        RECURSIVE TryLen(_, _, _, _, _)
        MatchItems(k, j) ==
            IF k > Len(pat) THEN [ok |-> TRUE, end |-> j, gs |-> 0, ge |-> 0]
            ELSE CASE pat[k].kind = "bol" ->
                        IF j = 1 \/ s[j - 1] = "\n" THEN MatchItems(k + 1, j) ELSE NoMatch
                   [] pat[k].kind = "eol" ->
                        IF j = Len(s) + 1 \/ s[j] = "\n" THEN MatchItems(k + 1, j) ELSE NoMatch
                   [] OTHER ->
                        LET longest == RunLen(pat[k], j, 0) IN
                        IF longest < pat[k].min THEN NoMatch
                        ELSE IF pat[k].greedy THEN TryLen(k, j, longest, pat[k].min, 0 - 1)
                             ELSE TryLen(k, j, pat[k].min, longest, 1)
        TryLen(k, j, n, last, step) ==
            LET rest == MatchItems(k + 1, j + n) IN
            IF rest.ok
            THEN IF pat[k].group THEN [rest EXCEPT !.gs = j, !.ge = j + n] ELSE rest
            ELSE IF n = last THEN NoMatch
                 ELSE TryLen(k, j, n + step, last, step)
    IN MatchItems(1, i)

\* str.strip(chars)
Strip(s, cs) ==
    LET RECURSIVE LStrip(_)
        LStrip(t) == IF t # <<>> /\ Head(t) \in cs THEN LStrip(Tail(t)) ELSE t
        RECURSIVE RStrip(_)
        RStrip(t) ==
            IF t # <<>> /\ t[Len(t)] \in cs THEN RStrip(SubSeq(t, 1, Len(t) - 1)) ELSE t
    IN RStrip(LStrip(s))

\* str.split(c): the pieces between the occurrences of c, empty ones included
Split(s, c) ==
    LET RECURSIVE SplitOn(_, _)
        SplitOn(t, piece) ==
            IF t = <<>> THEN <<piece>>
            ELSE IF Head(t) = c THEN <<piece>> \o SplitOn(Tail(t), <<>>)
                 ELSE SplitOn(Tail(t), Append(piece, Head(t)))
    IN SplitOn(s, <<>>)

\* sep.join(the pieces, each stripped, that are not empty)
RECURSIVE JoinStripped(_, _)
JoinStripped(pieces, sep) ==
    IF pieces = <<>> THEN <<>>
    ELSE LET first == Strip(Head(pieces), Whitespace)
             rest == JoinStripped(Tail(pieces), sep)
         IN IF first = <<>> THEN rest
            ELSE IF rest = <<>> THEN first
                 ELSE first \o sep \o rest

_clean_table_row(row) == JoinStripped(Split(Strip(row, {"|"}), "|"), <<" ">>)

\* re.sub(pat, repl, s): the non-overlapping matches from the left, each
\* replaced by the capture group ("group"), by the table-row callback
\* ("table") or by a fixed text.  No pattern of the cleaner matches the empty
\* string.
Sub(pat, repl, text, s) ==
    LET Replacement(i, m) ==
            CASE repl = "group" -> SubSeq(s, m.gs, m.ge - 1)
              [] repl = "table" -> _clean_table_row(SubSeq(s, i, m.end - 1))
              [] OTHER -> text
        RECURSIVE SubFrom(_)
        SubFrom(i) ==
            IF i > Len(s) THEN <<>>
            ELSE LET m == Match(pat, s, i) IN
                 IF m.ok /\ m.end > i
                 THEN Replacement(i, m) \o SubFrom(m.end)
                 ELSE <<s[i]>> \o SubFrom(i + 1)
    IN SubFrom(1)

\* open(.*?)close with . any character but the newline
Delimited(open, close) ==
    [j \in 1..Len(open) |-> Ch(open[j])]
       \o <<Item({"\n"}, TRUE, 0, Unbounded, FALSE, TRUE)>>
       \o [j \in 1..Len(close) |-> Ch(close[j])]

\* the pattern dictionaries of _init_cleaning_patterns, in insertion order:
\* <<pattern, kind of replacement, replacement text>>
base_patterns ==
    LET Line3(c) == <<Bol, Item({c}, FALSE, 3, Unbounded, TRUE, FALSE), Eol>> IN
    << <<Line3("-"), "text", <<>>>>,
       <<Line3("="), "text", <<>>>>,
       <<Line3("*"), "text", <<>>>>,
       <<<<Ch("|"), Item({"-", ":"}, FALSE, 1, Unbounded, TRUE, FALSE), Ch("|")>>,
         "text", <<>>>>,
       <<<<Bol, Ch("|"), Item({"\n"}, TRUE, 0, Unbounded, TRUE, FALSE), Ch("|"), Eol>>,
         "table", <<>>>>,
       <<<<Item({"\n"}, FALSE, 3, Unbounded, TRUE, FALSE)>>, "text", <<"\n", "\n">>>> >>

conservative_patterns ==
    base_patterns \o
    << <<Delimited(<<"*", "*">>, <<"*", "*">>), "group", <<>>>>,
       <<Delimited(<<"*">>, <<"*">>), "group", <<>>>>,
       <<Delimited(<<Backtick>>, <<Backtick>>), "group", <<>>>> >>

balanced_patterns ==
    LET Not(c, min, group) == Item({c}, TRUE, min, Unbounded, TRUE, group)
        Spaces(min) == Item(Whitespace, FALSE, min, Unbounded, TRUE, FALSE)
        Digits == WordChars \ {"a", "b", "x", "y", "_"}
    IN conservative_patterns \o
    << <<<<Ch("["), Not("]", 1, TRUE), Ch("]"), Ch("("), Not(")", 1, FALSE), Ch(")")>>,
         "group", <<>>>>,
       <<<<Ch("["), Not("]", 1, TRUE), Ch("]"), Ch("["), Not("]", 0, FALSE), Ch("]")>>,
         "group", <<>>>>,
       <<<<Ch("!"), Ch("["), Not("]", 0, TRUE), Ch("]"),
           Ch("("), Not(")", 1, FALSE), Ch(")")>>, "group", <<>>>>,
       <<<<Bol, Ch(">"), Spaces(0)>>, "text", <<>>>>,
       <<<<Bol, Spaces(0), Item({"-", "*", "+"}, FALSE, 1, 1, TRUE, FALSE), Spaces(1)>>,
         "text", <<>>>>,
       <<<<Bol, Spaces(0), Item(Digits, FALSE, 1, Unbounded, TRUE, FALSE), Ch("."),
           Spaces(1)>>, "text", <<>>>> >>

StructuralChars == {"#", "*", "_", "~", Backtick, ">", "|"}

aggressive_patterns_keep ==  \* variant: without the final character-class rule
    balanced_patterns \o
    << <<Delimited(<<"~", "~">>, <<"~", "~">>), "group", <<>>>>,
       <<Delimited(<<"=", "=">>, <<"=", "=">>), "group", <<>>>>,
       <<<<Ch("^"), Item({")"}, TRUE, 1, Unbounded, TRUE, TRUE), Ch("^")>>, "group", <<>>>>,
       <<<<Ch("~"), Item({")"}, TRUE, 1, Unbounded, TRUE, TRUE), Ch("~")>>, "group", <<>>>> >>

aggressive_patterns ==
    balanced_patterns \o
    << <<Delimited(<<"~", "~">>, <<"~", "~">>), "group", <<>>>>,
       <<Delimited(<<"=", "=">>, <<"=", "=">>), "group", <<>>>>,
       <<<<Ch("^"), Item({")"}, TRUE, 1, Unbounded, TRUE, TRUE), Ch("^")>>, "group", <<>>>>,
       <<<<Ch("~"), Item({")"}, TRUE, 1, Unbounded, TRUE, TRUE), Ch("~")>>, "group", <<>>>>,
       <<<<Item(StructuralChars, FALSE, 1, 1, TRUE, FALSE)>>, "text", <<>>>> >>

\* MarkdownCleaner.__init__ with the default (empty) custom_patterns
MarkdownCleaner_init(strategy, preserve_code_blocks, preserve_headings_as_context) ==
    [strategy |-> strategy, preserve_code_blocks |-> preserve_code_blocks,
     preserve_headings_as_context |-> preserve_headings_as_context,
     custom_patterns |-> <<>>]

\* lines 136-156; the fenced-block patterns are applied with re.DOTALL
_preprocess_content(cleaner, content) ==
    LET Fence(group) ==
            <<Ch(Backtick), Ch(Backtick), Ch(Backtick),
              Item(WordChars, FALSE, 0, Unbounded, TRUE, FALSE), Ch("\n"),
              Item({}, TRUE, 0, Unbounded, FALSE, group), Ch("\n"),
              Ch(Backtick), Ch(Backtick), Ch(Backtick)>>
        Marker == <<Bol, Item({"#"}, FALSE, 1, 6, TRUE, FALSE),
                    Item(Whitespace, FALSE, 1, Unbounded, TRUE, FALSE)>>
        code ==
          IF cleaner.preserve_code_blocks
          THEN Sub(<<Ch(Backtick), Item({Backtick}, TRUE, 1, Unbounded, TRUE, TRUE),
                     Ch(Backtick)>>, "group", <<>>,
                   Sub(Fence(TRUE), "group", <<>>, content))
          ELSE Sub(Fence(FALSE), "text", <<>>, content)
    IN IF cleaner.preserve_headings_as_context
       THEN Sub(Marker \o <<Item({"\n"}, TRUE, 0, Unbounded, TRUE, TRUE), Eol>>,
                "group", <<>>, code)
       ELSE Sub(Marker, "text", <<>>, code)

RECURSIVE _apply_patterns(_, _)
_apply_patterns(content, patterns) ==
    IF patterns = <<>> THEN content
    ELSE _apply_patterns(Sub(Head(patterns)[1], Head(patterns)[2], Head(patterns)[3],
                             content),
                         Tail(patterns))

_postprocess_content(content) ==
    LET spaced == Sub(<<Item(Whitespace, FALSE, 1, Unbounded, TRUE, FALSE)>>,
                      "text", <<" ">>, content)
        blank == Sub(<<Ch("\n"), Item(Whitespace, FALSE, 0, Unbounded, TRUE, FALSE),
                       Ch("\n")>>, "text", <<"\n", "\n">>, spaced)
    IN Strip(JoinStripped(Split(blank, "\n"), <<"\n">>), Whitespace)

\* clean_content on a str (lines 111-134)
clean_content(cleaner, content) ==
    IF content = <<>> \/ Strip(content, Whitespace) = <<>> THEN content
    ELSE LET patterns ==
               CASE cleaner.strategy = "conservative" -> conservative_patterns
                 [] cleaner.strategy = "balanced" -> balanced_patterns
                 [] OTHER -> aggressive_patterns
         IN _postprocess_content(
               _apply_patterns(
                  _apply_patterns(_preprocess_content(cleaner, content), patterns),
                  cleaner.custom_patterns))

MaxContentLen == 4    \* longest content over the heading alphabet

\* the calls drawn: every cleaner on the contents of one or two markup
\* characters; on the contents over the heading alphabet, which hold no
\* code, the cleaners with the default preserve_code_blocks
CleanCalls ==
    LET Cleaners == {MarkdownCleaner_init(st, c, h) :
                        st \in {"conservative", "balanced", "aggressive"},
                        c \in BOOLEAN, h \in BOOLEAN}
        MarkupAlphabet == StructuralChars \cup {"a", "\n"}
    IN {<<cleaner, content>> :
           cleaner \in Cleaners,
           content \in {<<c>> : c \in MarkupAlphabet}
                          \cup {<<c, d>> : c, d \in MarkupAlphabet}}
       \cup {<<cleaner, content>> :
               cleaner \in {x \in Cleaners : x.preserve_code_blocks},
               content \in SeqsUpTo({"a", "#", " ", "\n"}, MaxContentLen)}

\* one call cleaner.clean_content(content); for None "not content" holds and
\* line 112 returns the argument itself.  The cleaner keeps nothing between
\* calls, so a behaviour is one call.
CleanContent(cleaner, content, is_none) ==
    /\ ~cleanCall.called
    /\ is_none => content = <<>>
    /\ cleanCall' = [called |-> TRUE,
                     strategy |-> cleaner.strategy,
                     preserve_code_blocks |-> cleaner.preserve_code_blocks,
                     preserve_headings_as_context |-> cleaner.preserve_headings_as_context,
                     content |-> content,
                     content_is_none |-> is_none,
                     output |-> IF is_none THEN <<>> ELSE clean_content(cleaner, content),
                     output_is_none |-> is_none]
    /\ UNCHANGED <<splitVars, dbVars, scoreVars, fileVars, embVars, appVars, srch, procs>>

CleanNext ==
    \E cc \in CleanCalls, is_none \in BOOLEAN : CleanContent(cc[1], cc[2], is_none)

CleanSpec == Init /\ [][CleanNext]_vars

(***************************************************************************)
(* Properties of the vector index                                          *)
(***************************************************************************)
EntriesOf(coll, f) == {e \in coll : e.metadata.source_filename = f}

EntryOfChunk(chunk, vector) ==
    [text |-> chunk.text, metadata |-> ChunkMetadata(chunk), id |-> ChunkId(chunk),
     vector |-> vector]

\* C7: add_documents is an upsert keyed by id: after an add that returned its
\* ids, the entry of every such id is the supplied vector, text and metadata;
\* an add whose ids are all in the index already leaves the number of entries
\* unchanged; the index never holds two entries with one id.
C7_Upsert ==
    /\ (dbCall.op = "add" /\ dbRet.outcome = "ok") =>
          /\ \A i \in 1..Len(dbRet.value) :
                EntryOfChunk(dbCall.chunks[i], dbCall.embeddings[i]) \in index
          /\ (Range(dbRet.value) \subseteq IdsOf(indexBefore)) =>
                Cardinality(index) = Cardinality(indexBefore)
    /\ \A e1, e2 \in index : e1.id = e2.id => e1 = e2

\* C8: once delete_document(f) has returned and until an add returns ids of f,
\* the index holds no entry of f, list_documents() does not name f and no
\* search result carries f.
C8_NoResidue ==
    \A f \in deleted :
       /\ EntriesOf(index, f) = {}
       /\ f \notin Range(list_documents(index))
       /\ (dbCall.op \in {"search", "list"}) =>
             \A i \in 1..Len(dbRet.value) :
                IF dbCall.op = "search"
                  THEN dbRet.value[i].metadata.source_filename # f
                  ELSE dbRet.value[i] # f

\* f was ingested more than once, with different contents, and then deleted
C8_Witness ==
    /\ dbCall.op = "delete"
    /\ dbCall.filename \in deleted
    /\ \E e1, e2 \in EntriesOf(indexBefore, dbCall.filename) : e1.text # e2.text
    /\ index # {}

\* C9: delete_document on a filename without entries returns success and
\* leaves the index and list_documents() as they were; a second delete of the
\* same filename right after a delete changes nothing and returns the same.
C9_DeleteMissingNoOp ==
    (dbCall.op = "delete") =>
       /\ (EntriesOf(indexBefore, dbCall.filename) = {}) =>
             /\ dbRet.success
             /\ index = indexBefore
             /\ list_documents(index) = list_documents(indexBefore)
       /\ delete_document(index, dbCall.filename) =
             [index |-> index, success |-> dbRet.success]

C9_Witness ==
    /\ dbCall.op = "delete"
    /\ EntriesOf(indexBefore, dbCall.filename) = {}
    /\ indexBefore # {}
    /\ dbRet.success

\* C10: add_documents raises a validation error whenever the two lists differ
\* in length, also when exactly one of them is empty, and then leaves the
\* index unchanged.
C10_LengthMismatchRaises ==
    (dbCall.op = "add" /\ Len(dbCall.chunks) # Len(dbCall.embeddings)) =>
       /\ dbRet.outcome = "ValueError"
       /\ index = indexBefore

\* C11: search returns at most top_k results, each built from an entry that is
\* in the index, in order of non-increasing score.
C11_SearchRanked ==
    (dbCall.op = "search" /\ dbRet.outcome = "ok") =>
       LET res == dbRet.value IN
         /\ Len(res) <= dbCall.top_k
         /\ \A i \in 1..Len(res) :
               \E e \in index :
                  /\ res[i].id = e.id
                  /\ res[i].text = e.text
                  /\ res[i].metadata = e.metadata
         /\ \A i, j \in 1..Len(res) : i < j => res[i].score2 >= res[j].score2

\* a search cut off by top_k whose results differ in score
C11_Witness ==
    /\ dbCall.op = "search"
    /\ dbRet.outcome = "ok"
    /\ Len(dbRet.value) = dbCall.top_k
    /\ Cardinality(index) > dbCall.top_k
    /\ \E i, j \in 1..Len(dbRet.value) : dbRet.value[i].score2 > dbRet.value[j].score2

\* the characters of a filename as code points
NameCodes(f) ==
    IF f = "a" THEN <<97>>
    ELSE IF f = "a_1" THEN <<97, 95, 49>>
    ELSE <<>>

\* Python's order of strings: by code point, a proper prefix first
RECURSIVE LexLess(_, _)
LexLess(u, v) ==
    IF Len(v) = 0 THEN FALSE
    ELSE IF Len(u) = 0 THEN TRUE
    ELSE IF Head(u) # Head(v) THEN Head(u) < Head(v)
    ELSE LexLess(Tail(u), Tail(v))

\* C13: list_documents() returns exactly the source filenames of the entries
\* in the index, in ascending order and each once; nothing for an empty index.
C13_ListDocuments ==
    (dbCall.op = "list") =>
       LET res == dbRet.value IN
         /\ Range(res) = {e.metadata.source_filename : e \in index}
         /\ \A i, j \in 1..Len(res) :
               i < j => LexLess(NameCodes(res[i]), NameCodes(res[j]))
         /\ (index = {}) => res = <<>>

\* a listing of two documents made after a delete
C13_Witness ==
    /\ dbCall.op = "list"
    /\ Len(dbRet.value) = 2
    /\ Cardinality(index) > 2

\* C12: the score is in [0,1] for every distance, also one below 0 or above
\* 2: it is (2 - d)/2 clamped, so d = 0 gives 1 and d >= 2 gives 0.
\* (distance counts 1/DistanceDen, score counts 1/(2*DistanceDen))
C12_ScoreClamped ==
    scoreCall.called =>
       LET d == scoreCall.distance
           s == scoreCall.score
           one == 2 * DistanceDen
       IN /\ 0 <= s /\ s <= one
          /\ (d = 0) => s = one
          /\ (d >= 2 * DistanceDen) => s = 0
          /\ (d < 0) => s = one
          /\ (0 <= d /\ d <= 2 * DistanceDen) => s = one - d

\* a distance above 2 has been scored
C12_Witness == scoreCall.called /\ scoreCall.distance > 2 * DistanceDen /\ scoreCall.score = 0

\* C18: an error of one document (validation, unreadable or missing file, empty
\* content, embedding failure, index failure) never aborts the batch: it is
\* recorded in failed_files, the later documents are still processed, and the
\* result records every document.  (Only TextSplitter(...) of line 96, before
\* the first document, may raise.)
C18_NoAbort ==
    /\ (run.pc = "raised") => run.i = 0
    /\ (run.pc = "loop") =>
          Len(run.successful_files) + Len(run.failed_files) = run.i - 1
    /\ (run.pc = "returned") =>
          /\ Len(run.result.ingested_files) + Len(run.result.failed_files) = run.n
          /\ \A k \in 1..Len(run.files) :
                \/ Basename(run.files[k].path) \in Range(run.result.ingested_files)
                \/ \E f \in Range(run.result.failed_files) :
                      f.filename = Basename(run.files[k].path)

IsPrefix(u, v) == Len(u) <= Len(v) /\ SubSeq(v, 1, Len(u)) = u

\* C19: when the embedding of a document fails, the entries of the documents
\* ingested earlier in the batch are left as they were, and those documents
\* stay in the success list.
C19_NoRollback ==
    /\ (run.last.emb_outcome \notin {"none", "ok"}) =>
          /\ index = run.last.index_before
          /\ run.successful_files = run.last.successful_before
    /\ IsPrefix(run.last.successful_before, run.successful_files)
    /\ (run.pc = "returned") => run.result.ingested_files = run.successful_files

\* the embedding of a document failed after another document of the same
\* batch had been stored
C19_Witness ==
    /\ run.last.emb_outcome \notin {"none", "ok"}
    /\ run.last.successful_before # <<>>
    /\ run.last.index_before # run.index_at_start
    /\ \E e \in index : e.metadata.source_filename = run.last.successful_before[1]

\* C20: validate_file(path, size) returns (False, a reason naming the
\* extension) when the lower-cased extension of path is not in the allow-list;
\* otherwise (False, a reason naming the size) when size exceeds
\* max_file_size_mb * 1024 * 1024 bytes; otherwise (True, ""). A size equal to
\* the maximum is accepted.
C20_ValidateFile ==
    valCall.called =>
       LET ext == SplitExt(valCall.file_path)
           allowed == Lower(ext) \in Range(fileProc.allowed_extensions)
           ceiling == fileProc.max_file_size_mb * 1024 * 1024
       IN /\ ~allowed =>
               /\ ~valCall.ok
               /\ valCall.reason.kind = "extension"
               /\ valCall.reason.ext = ext
          /\ (allowed /\ valCall.file_size > ceiling) =>
               /\ ~valCall.ok
               /\ valCall.reason.kind = "size"
               /\ valCall.reason.size = valCall.file_size
          /\ (allowed /\ valCall.file_size <= ceiling) =>
               /\ valCall.ok
               /\ valCall.reason = NoReason

\* an upper-case .MD file of exactly the maximum size has been accepted
C20_Witness ==
    /\ valCall.called
    /\ valCall.file_path = Chars("/t/a.MD")
    /\ valCall.file_size = fileProc.max_file_size_mb * 1024 * 1024
    /\ valCall.file_size > 0
    /\ valCall.ok

\* the model whose vector v is (ModelVector)
ModelCodeOf(v) == (v[1] % 4) + 1

\* C14: an index never holds vectors of two embedding backends: each backend
\* has its own collection, named by the base name followed by the identifier
\* of the backend.
C14_BackendIsolation ==
    /\ \A e1, e2 \in index : ModelCodeOf(e1.vector) = ModelCodeOf(e2.vector)
    /\ app.started =>
          app.collection_name =
             BaseCollectionName \o "_" \o app.embedding_provider.model_identifier

\* C15: embed_texts returns exactly one vector per input text, the i-th being
\* the provider's embedding of the i-th text; an empty input returns [] and
\* makes no provider call, whatever the state of the provider.
C15_OnePerText ==
    embCall.called =>
       /\ (embCall.outcome = "ok") =>
             /\ Len(embCall.value) = Len(embCall.texts)
             /\ \A k \in 1..Len(embCall.texts) :
                   embCall.value[k] =
                      ModelVector(provider.model_name, Prepared(provider, embCall.texts[k]))
       /\ (embCall.texts = <<>>) =>
             /\ embCall.outcome = "ok"
             /\ embCall.value = <<>>
             /\ embCall.api_calls = <<>>

\* two different texts were embedded in one call, in their order
C15_Witness ==
    /\ embCall.called
    /\ embCall.outcome = "ok"
    /\ Len(embCall.texts) = 2
    /\ embCall.value[1] # embCall.value[2]

\* C16: a failure of the provider call aborts embed_texts as a whole: the error
\* reaches the caller and no vector is returned; process_files records that
\* error against the document it was processing.
C16_FailureRecorded ==
    (run.last.emb_outcome \notin {"none", "ok"}) =>
       /\ run.last.emb_value = <<>>
       /\ run.last.kind = "error"
       /\ run.failed_files # <<>>
       /\ run.failed_files[Len(run.failed_files)] =
             Failure(run.last.filename, "error", run.last.emb_outcome)
       /\ run.successful_files = run.last.successful_before

\* the provider failed on the second document of a batch
C16_Witness ==
    /\ run.last.emb_outcome = "APIError"
    /\ Len(run.files) = 2
    /\ Len(run.failed_files) = 1

\* C17: a provider whose endpoint has a limit on the inputs of one request
\* sends the texts in consecutive batches no longer than the limit, one call
\* per batch in order, and returns the vectors of all batches in input order.
C17_Batched ==
    (embCall.called /\ Ceiling(provider) > 0) =>
       /\ \A k \in 1..Len(embCall.api_calls) :
             /\ Len(embCall.api_calls[k]) >= 1
             /\ Len(embCall.api_calls[k]) <= Ceiling(provider)
       /\ (embCall.outcome = "ok") =>
             /\ Flatten(embCall.api_calls) =
                   [k \in 1..Len(embCall.texts) |-> Prepared(provider, embCall.texts[k])]
             /\ Len(embCall.value) = Len(embCall.texts)

\* C30: delete_document(f) leaves every entry whose source_filename differs
\* from f as it was (same id, vector, text, metadata), also the entries of a
\* document whose name begins with f: deleting "a" keeps "a_1_0" of "a_1".
C30_DeleteFrame ==
    (dbCall.op = "delete") =>
       /\ \A e \in indexBefore : e.metadata.source_filename # dbCall.filename => e \in index
       /\ index \subseteq indexBefore

\* "a" was deleted while "a_1" was stored, and the entry a_1_0 is still there
C30_Witness ==
    /\ dbCall.op = "delete"
    /\ dbCall.filename = "a"
    /\ \E e \in indexBefore : e.metadata.source_filename = "a"
    /\ \E e \in index : e.id = "a_1_0" /\ e.metadata.source_filename = "a_1"


(***************************************************************************)
(* Properties of the cleaner                                               *)
(***************************************************************************)
CleanerOf(cc) ==
    MarkdownCleaner_init(cc.strategy, cc.preserve_code_blocks,
                         cc.preserve_headings_as_context)

C23_EmptyOutput ==
    (cleanCall.called /\ (cleanCall.content_is_none
                            \/ Strip(cleanCall.content, Whitespace) = <<>>)) =>
       /\ ~cleanCall.output_is_none
       /\ cleanCall.output = <<>>

\* the lines of a content made of paragraphs of text separated by one or
\* more blank lines: first and last line are paragraphs, no two paragraphs
\* are adjacent
IsParagraphs(lines) ==
    /\ lines[1] # <<>> /\ lines[Len(lines)] # <<>>
    /\ \A j \in 1..Len(lines) : Range(lines[j]) \subseteq {"a"}
    /\ \A j \in 1..(Len(lines) - 1) : lines[j] = <<>> \/ lines[j + 1] = <<>>

\* C24: for a content of k non-empty paragraphs separated by blank lines, the
\* output split on newlines is exactly the k paragraphs, one per line, with
\* no empty line.
C24_ParagraphsKept ==
    (cleanCall.called /\ ~cleanCall.content_is_none
        /\ IsParagraphs(Split(cleanCall.content, "\n"))) =>
       Split(cleanCall.output, "\n")
          = SelectSeq(Split(cleanCall.content, "\n"), LAMBDA line : line # <<>>)

HeadingMarker ==
    <<Bol, Item({"#"}, FALSE, 1, 6, TRUE, FALSE), Item(Whitespace, FALSE, 1, 1, TRUE, FALSE)>>

\* C25: clean_content returns the same output with
\* preserve_headings_as_context True and False, all else equal, and no line
\* of the output begins with a heading marker (one to six # and a space).
C25_HeadingFlagNoEffect ==
    (cleanCall.called /\ ~cleanCall.content_is_none) =>
       /\ cleanCall.output =
             clean_content([CleanerOf(cleanCall) EXCEPT
                               !.preserve_headings_as_context = ~@],
                           cleanCall.content)
       /\ \A i \in 1..Len(cleanCall.output) :
             ~Match(HeadingMarker, cleanCall.output, i).ok


\* C21: search_documents never raises: an error in embedding the query or in
\* the index query is caught and the call returns the empty list; what it
\* returns is the empty list or the complete list, one formatted result per
\* match of the engine's ranking, in its order.
C21_SearchNeverRaises ==
    srch.called =>
       /\ srch.raised = None
       /\ srch.error # None => srch.value = <<>>
       /\ \/ srch.value = <<>>
          \/ \E matches \in EngineQuery(index, srch.query_embedding, srch.top_k) :
                /\ Len(srch.value) = Len(matches)
                /\ \A k \in 1..Len(matches) :
                      /\ srch.value[k].filename = matches[k].metadata.source_filename
                      /\ srch.value[k].chunk_index = matches[k].metadata.chunk_index
                      /\ srch.value[k].text = matches[k].text

\* the index query failed on a collection that holds documents
C21_Witness ==
    /\ srch.called
    /\ srch.error = "InvalidDimensionException"
    /\ index # {}
    /\ srch.value = <<>>


\* C26: ingesting a filename again never deletes entries of its earlier
\* ingestion: every step of the app other than delete_document keeps every
\* entry of the index, so the entries f_m .. f_(n-1) of a document first
\* ingested as n chunks and then as m < n chunks stay, and search returns them.
C26_ReingestKeepsEntries ==
    [][(\A filename \in {"a.md", "b.md"} : ~AppDeleteDocument(filename))
          => index \subseteq index']_vars

\* a.md was ingested as two chunks and then again as one chunk, and the
\* search that follows returns the second chunk of the first ingestion
C26_Witness ==
    /\ run.last.filename = "a.md" /\ run.last.kind = "ok"
    /\ app.text_splitter.chunk_size = 2
    /\ \E e \in run.last.index_before : e.id = "a.md_1"
    /\ srch.called
    /\ \E k \in 1..Len(srch.value) :
          srch.value[k].filename = "a.md" /\ srch.value[k].chunk_index = 1


\* C27: a document is reported as ingested only if it is in the index: when
\* process_files returns, the index holds an entry for every chunk id of
\* every document in ingested_files, and the chunk total is the number of
\* those entries, whatever vector list the backend answered with.
C27_IngestedIsStored ==
    (run.pc = "returned" /\ run.n > 0) =>
       LET FileOf(name) == CHOOSE f \in AppFiles : Basename(f.path) = name
           StoredOf(name) ==
              {c \in Range(SplitFileResult(app.text_splitter, name, FileOf(name).content)) :
                  ChunkId(c) \in IdsOf(index)}
           RECURSIVE StoredUpTo(_)
           StoredUpTo(k) ==
              IF k = 0 THEN 0
              ELSE StoredUpTo(k - 1) + Cardinality(StoredOf(run.result.ingested_files[k]))
       IN /\ \A k \in 1..Len(run.result.ingested_files) :
                LET name == run.result.ingested_files[k] IN
                Cardinality(StoredOf(name))
                   = Len(SplitFileResult(app.text_splitter, name, FileOf(name).content))
          /\ run.total_chunks = StoredUpTo(Len(run.result.ingested_files))

\* C28: a document recorded in failed_files has changed nothing in the
\* index: the index after it was processed is the index before, whichever
\* step failed (validation, read, empty chunk list, embedding, add).
C28_FailedChangesNothing ==
    (run.last.kind \in {"validation", "read", "empty", "error"}) =>
       /\ index = run.last.index_before
       /\ \E k \in 1..Len(run.failed_files) :
             run.failed_files[k].filename = run.last.filename

\* the add failed on a collection that holds documents
C28_Witness ==
    /\ run.last.kind = "error"
    /\ run.last.detail = "InvalidDimensionException"
    /\ run.last.emb_outcome = "ok"
    /\ index # {}


\* C29: every process_files call splits each of its documents with the
\* chunk_size and chunk_overlap passed to that call, also while another call
\* with other parameters runs on the same app.
C29_OwnSplitter ==
    \A p \in 1..2 :
       \A k \in 1..Len(procs[p].split_with) :
          /\ procs[p].split_with[k].chunk_size = procs[p].chunk_size
          /\ procs[p].split_with[k].chunk_overlap = procs[p].chunk_overlap

====
